---- MODULE Spec2Model ----
(***************************************************************************)
(* Model of xhyve.go: the parameter defaulting (setDefaults) and the       *)
(* ordered bootstrap pipeline (RunXHyve) that drives the xhyve backend     *)
(* through cgo.  The backend is the environment: every call it answers is  *)
(* recorded in `calls` together with the answer it gave.                   *)
(***************************************************************************)
EXTENDS Integers, Sequences, FiniteSets, TLC

VARIABLES
    orig,       \* the XHyveParams value the caller passed to RunXHyve
    p,          \* RunXHyve's own copy of the parameters (passed by value)
    pc,         \* position of control inside RunXHyve
    idx,        \* index of the range loop over p.PCISlots / p.LPCDevs
    calls,      \* backend calls made so far, in order, with their answers
    memsize,    \* var memsize C.size_t
    maxVCPUs,   \* maxVCPUs := C.num_vcpus_allowed()
    ret,        \* what RunXHyve returned ("running" while it has not)
    ndefaults,  \* how many times setDefaults has run
    cbufs,      \* C buffers made by C.CString and not freed
    thread,     \* the OS thread the goroutine running RunXHyve is on
    locked      \* whether the caller wired the goroutine to its OS thread

vars == <<orig, p, pc, idx, calls, memsize, maxVCPUs, ret, ndefaults,
          cbufs, thread, locked>>

----------------------------------------------------------------------------
(* Bounds of the model. *)

\* longest PCISlots list the caller passes
MaxSlots == 1
\* small vcpu counts the caller asks for are -1..MaxNvcpus
MaxNvcpus == 2
\* OS threads the Go scheduler may run the goroutine on, one after the other
MaxThreads == 2

----------------------------------------------------------------------------
(* Go's int is 64 bits wide on darwin/amd64, C.int is 32 bits.  A Go int   *)
(* is kept as its two 32-bit halves: hi is the upper half read as a signed *)
(* number, lo the lower half read as a signed number, so that the value is *)
(* hi * 2^32 + (lo mod 2^32).                                              *)

GoInt(n) == [hi |-> IF n < 0 THEN -1 ELSE 0, lo |-> n]

\* n < 1 on a Go int
LessThanOne(n) == n.hi < 0 \/ (n.hi = 0 /\ n.lo = 0)

\* the mathematical comparison  n > m  of a Go int with a 32-bit number
Exceeds(n, m) ==
    \/ n.hi > 0
    \/ n.hi = 0 /\ (n.lo < 0 \/ n.lo > m)
    \/ n.hi = -1 /\ n.lo < 0 /\ n.lo > m

\* C.int(n): the conversion keeps the low 32 bits
CInt(n) == n.lo

\* the smallest C.int, -2^31
MinCInt == -2147483647 - 1

----------------------------------------------------------------------------
(* Error values of the package. *)

ErrPCISlots           == "ErrPCISlots"
ErrLPCDevice          == "ErrLPCDevice"
ErrInvalidMemsize     == "ErrInvalidMemsize"
ErrInvalidBootParams  == "ErrInvalidBootParams"
ErrCreatingVM         == "ErrCreatingVM"
ErrMaxNumVCPUExceeded == "ErrMaxNumVCPUExceeded"
ErrSettingUpMemory    == "ErrSettingUpMemory"
\* referenced by RunXHyve, declared outside xhyve.go
ErrInitializingMSR    == "ErrInitializingMSR"
ErrInitializingPCI    == "ErrInitializingPCI"
ErrBuildingMPTTable   == "ErrBuildingMPTTable"
ErrBuildingSMBIOS     == "ErrBuildingSMBIOS"
ErrBuildingACPI       == "ErrBuildingACPI"

----------------------------------------------------------------------------
(* strconv.Atoi on a string kept as a sequence of one-character strings.   *)

DigitChars == {"0", "1", "2", "3", "4", "5", "6", "7", "8", "9"}

DigitVal(c) ==
    CASE c = "0" -> 0 [] c = "1" -> 1 [] c = "2" -> 2 [] c = "3" -> 3
      [] c = "4" -> 4 [] c = "5" -> 5 [] c = "6" -> 6 [] c = "7" -> 7
      [] c = "8" -> 8 [] c = "9" -> 9

RECURSIVE DecimalValue(_)
DecimalValue(s) ==
    IF s = <<>> THEN 0
    ELSE DecimalValue(SubSeq(s, 1, Len(s) - 1)) * 10 + DigitVal(s[Len(s)])

\* Atoi returns (0, syntax error) unless s is an optional sign followed by
\* at least one decimal digit; strings of the model are shorter than the 19
\* characters at which Atoi leaves its overflow-free fast path.
Atoi(s) ==
    LET signed == s # <<>> /\ s[1] \in {"-", "+"}
        digits == IF signed THEN SubSeq(s, 2, Len(s)) ELSE s
    IN  IF digits = <<>> \/ \E k \in 1..Len(digits) : digits[k] \notin DigitChars
        THEN [n |-> 0, err |-> TRUE]
        ELSE [n |-> IF s[1] = "-" THEN 0 - DecimalValue(digits)
                    ELSE DecimalValue(digits),
              err |-> FALSE]

----------------------------------------------------------------------------
(* setDefaults *)

DefaultMemory == <<"2", "5", "6">>

DefaultPCISlots == <<"2:0,virtio-net", "0:0,hostbridge", "31,lpc">>

DefaultLPCDevs == <<"com1", "stdio">>

\* identifiers uuid.NewV4().String() may produce
GeneratedUUIDs == {"uuid-a", "uuid-b"}

\* mutant: the test is "< 0", so a count of 0 is kept
defaultNvcpus_OffByOne(q) ==
    IF q.Nvcpus.hi < 0 THEN GoInt(1) ELSE q.Nvcpus

defaultNvcpus(q) == IF LessThanOne(q.Nvcpus) THEN GoInt(1) ELSE q.Nvcpus

\* mutant: only the parse error is tested, not the size
defaultMemory_NoSizeCheck(q) ==
    IF Atoi(q.Memory).err THEN DefaultMemory ELSE q.Memory

defaultMemory(q) ==
    LET a == Atoi(q.Memory)
    IN  IF a.n < 256 \/ a.err THEN DefaultMemory ELSE q.Memory

\* mutant: the default slots are added to whatever the caller gave
defaultPCISlots_Appends(q) == q.PCISlots \o DefaultPCISlots

defaultPCISlots(q) == IF Len(q.PCISlots) = 0 THEN DefaultPCISlots ELSE q.PCISlots

defaultLPCDevs(q) == IF Len(q.LPCDevs) = 0 THEN DefaultLPCDevs ELSE q.LPCDevs

\* mutant: a new identifier is generated whatever the caller gave
defaultUUID_Always(q, fresh) == fresh

defaultUUID(q, fresh) == IF q.UUID = "" THEN fresh ELSE q.UUID

\* the parameters after setDefaults(&q), `fresh` being what uuid.NewV4 yields
setDefaults(q, fresh) ==
    [q EXCEPT !.Nvcpus   = defaultNvcpus(q),
              !.Memory   = defaultMemory(q),
              !.PCISlots = defaultPCISlots(q),
              !.LPCDevs  = defaultLPCDevs(q),
              !.UUID     = defaultUUID(q, fresh)]

----------------------------------------------------------------------------
(* Inputs of a run. *)

\* -1..MaxNvcpus, and 2^31: a count that does not fit a C.int
NvcpusInputs ==
    {GoInt(n) : n \in -1..MaxNvcpus} \cup {[hi |-> 0, lo |-> MinCInt]}

MemoryInputs ==
    { <<>>, <<"2", "5", "5">>, <<"2", "5", "6">>, <<"1", "0", "2", "4">>,
      <<"1", "G">>, <<"-", "9">> }

PCISlotPool == <<"4:0,virtio-blk", "3,ahci-cd", "5,virtio-rnd">>

PCISlotInputs == {SubSeq(PCISlotPool, 1, n) : n \in 0..MaxSlots}

LPCDevInputs == {<<>>, <<"com2,autopty">>}

\* a kernel boot spec, and the kernel boot spec with an empty image, initrd
\* and command line
BootParamsInputs == {"kexec,vmlinuz,initrd.gz,earlyprintk=serial", "kexec,,,"}

XHyveParams ==
    [Nvcpus : NvcpusInputs, Memory : MemoryInputs, PCISlots : PCISlotInputs,
     LPCDevs : LPCDevInputs, ACPI : BOOLEAN, UUID : {"", "vm-1"},
     UTC : BOOLEAN, BootParams : BootParamsInputs,
     BVMConsole : BOOLEAN, MPTGen : BOOLEAN]

\* vcpu limits num_vcpus_allowed may report
VcpuLimits == {1, 2}

\* answers of a backend call that reports success (0) or failure
ReturnCodes == {0, -1}

\* byte counts parse_memsize may store through its out-parameter
MemsizeOutputs == {268435456}

VM_MMAP_ALL == "VM_MMAP_ALL"

----------------------------------------------------------------------------
(* RunXHyve *)

Init ==
    /\ orig \in XHyveParams
    /\ p = orig
    /\ pc = "setDefaults"
    /\ idx = 1
    /\ calls = <<>>
    /\ memsize = 0
    /\ maxVCPUs = 0
    /\ ret = "running"
    /\ ndefaults = 0
    /\ cbufs = 0
    /\ thread = 1
    /\ locked = FALSE

\* a cgo call runs on the OS thread the calling goroutine is on
Call(fn, arg, rc) == [fn |-> fn, arg |-> arg, rc |-> rc, thread |-> thread]

\* C.CString(s): a new C buffer; RunXHyve has no C.free
CString == cbufs' = cbufs + 1

\* return err: the run is over
Return(err) == pc' = "done" /\ ret' = err

\* if err := C.f(...); err != 0 { return e }, control going to `next`
Checked(fn, arg, rc, e, next) ==
    /\ calls' = Append(calls, Call(fn, arg, rc))
    /\ IF rc # 0 THEN Return(e) ELSE pc' = next /\ ret' = ret

RunSetDefaults ==
    /\ pc = "setDefaults"
    /\ \E fresh \in GeneratedUUIDs : p' = setDefaults(p, fresh)
    /\ ndefaults' = ndefaults + 1
    /\ pc' = "pci_parse_slot"
    /\ idx' = 1
    /\ UNCHANGED <<orig, calls, memsize, maxVCPUs, ret, cbufs, thread, locked>>

\* mutant: a rejected slot is skipped and the loop goes on
PCIParseSlot_Continues ==
    /\ pc = "pci_parse_slot"
    /\ IF idx > Len(p.PCISlots)
       THEN /\ pc' = "lpc_device_parse"
            /\ idx' = 1
            /\ UNCHANGED <<calls, ret, cbufs>>
       ELSE \E rc \in ReturnCodes :
            /\ CString
            /\ calls' = Append(calls, Call("pci_parse_slot", p.PCISlots[idx], rc))
            /\ pc' = pc /\ ret' = ret
            /\ idx' = idx + 1
    /\ UNCHANGED <<orig, p, memsize, maxVCPUs, ndefaults, thread, locked>>

\* for _, s := range p.PCISlots
PCIParseSlot ==
    /\ pc = "pci_parse_slot"
    /\ IF idx > Len(p.PCISlots)
       THEN /\ pc' = "lpc_device_parse"
            /\ idx' = 1
            /\ UNCHANGED <<calls, ret, cbufs>>
       ELSE \E rc \in ReturnCodes :
            /\ CString
            /\ Checked("pci_parse_slot", p.PCISlots[idx], rc, ErrPCISlots,
                       "pci_parse_slot")
            /\ idx' = idx + 1
    /\ UNCHANGED <<orig, p, memsize, maxVCPUs, ndefaults, thread, locked>>

\* mutant: a rejected LPC device returns the PCI slot error
LPCDeviceParse_WrongErr ==
    /\ pc = "lpc_device_parse"
    /\ IF idx > Len(p.LPCDevs)
       THEN /\ pc' = "parse_memsize"
            /\ idx' = 1
            /\ UNCHANGED <<calls, ret, cbufs>>
       ELSE \E rc \in ReturnCodes :
            /\ CString
            /\ Checked("lpc_device_parse", p.LPCDevs[idx], rc, ErrPCISlots,
                       "lpc_device_parse")
            /\ idx' = idx + 1
    /\ UNCHANGED <<orig, p, memsize, maxVCPUs, ndefaults, thread, locked>>

\* for _, l := range p.LPCDevs
LPCDeviceParse ==
    /\ pc = "lpc_device_parse"
    /\ IF idx > Len(p.LPCDevs)
       THEN /\ pc' = "parse_memsize"
            /\ idx' = 1
            /\ UNCHANGED <<calls, ret, cbufs>>
       ELSE \E rc \in ReturnCodes :
            /\ CString
            /\ Checked("lpc_device_parse", p.LPCDevs[idx], rc, ErrLPCDevice,
                       "lpc_device_parse")
            /\ idx' = idx + 1
    /\ UNCHANGED <<orig, p, memsize, maxVCPUs, ndefaults, thread, locked>>

\* mutant: the stage writes the normalised spec back into the parameters
ParseMemsize_Rewrites ==
    /\ pc = "parse_memsize"
    /\ CString
    /\ \E rc \in ReturnCodes :
        /\ Checked("parse_memsize", p.Memory, rc, ErrInvalidMemsize,
                   "firmware_parse")
        /\ IF rc = 0 THEN memsize' \in MemsizeOutputs ELSE memsize' = memsize
    /\ p' = [p EXCEPT !.Memory = DefaultMemory]
    /\ UNCHANGED <<orig, idx, maxVCPUs, ndefaults, thread, locked>>

ParseMemsize ==
    /\ pc = "parse_memsize"
    /\ CString
    /\ \E rc \in ReturnCodes :
        /\ Checked("parse_memsize", p.Memory, rc, ErrInvalidMemsize,
                   "firmware_parse")
        /\ IF rc = 0 THEN memsize' \in MemsizeOutputs ELSE memsize' = memsize
    /\ UNCHANGED <<orig, p, idx, maxVCPUs, ndefaults, thread, locked>>

FirmwareParse ==
    /\ pc = "firmware_parse"
    /\ CString
    /\ \E rc \in ReturnCodes :
        Checked("firmware_parse", p.BootParams, rc, ErrInvalidBootParams,
                "xh_vm_create")
    /\ UNCHANGED <<orig, p, idx, memsize, maxVCPUs, ndefaults, thread, locked>>

VMCreate ==
    /\ pc = "xh_vm_create"
    /\ \E rc \in ReturnCodes :
        Checked("xh_vm_create", <<>>, rc, ErrCreatingVM, "num_vcpus_allowed")
    /\ UNCHANGED <<orig, p, idx, memsize, maxVCPUs, ndefaults, cbufs, thread, locked>>

\* if C.int(p.Nvcpus) > maxVCPUs
vcpuLimitExceeded(n, max) == CInt(n) > max

NumVCPUsAllowed ==
    /\ pc = "num_vcpus_allowed"
    /\ \E max \in VcpuLimits :
        /\ maxVCPUs' = max
        /\ calls' = Append(calls, Call("num_vcpus_allowed", <<>>, max))
        /\ IF vcpuLimitExceeded(p.Nvcpus, max)
           THEN Return(ErrMaxNumVCPUExceeded)
           ELSE pc' = "xh_vm_setup_memory" /\ ret' = ret
    /\ UNCHANGED <<orig, p, idx, memsize, ndefaults, cbufs, thread, locked>>

\* mutant: the size handed over is not the one parse_memsize stored
SetupMemory_ZeroSize ==
    /\ pc = "xh_vm_setup_memory"
    /\ \E rc \in ReturnCodes :
        Checked("xh_vm_setup_memory", <<0, VM_MMAP_ALL>>, rc,
                ErrSettingUpMemory, "init_msr")
    /\ UNCHANGED <<orig, p, idx, memsize, maxVCPUs, ndefaults, cbufs, thread, locked>>

SetupMemory ==
    /\ pc = "xh_vm_setup_memory"
    /\ \E rc \in ReturnCodes :
        Checked("xh_vm_setup_memory", <<memsize, VM_MMAP_ALL>>, rc,
                ErrSettingUpMemory, "init_msr")
    /\ UNCHANGED <<orig, p, idx, memsize, maxVCPUs, ndefaults, cbufs, thread, locked>>

InitMSR ==
    /\ pc = "init_msr"
    /\ \E rc \in ReturnCodes :
        Checked("init_msr", <<>>, rc, ErrInitializingMSR, "init_mem")
    /\ UNCHANGED <<orig, p, idx, memsize, maxVCPUs, ndefaults, cbufs, thread, locked>>

\* the argument RunXHyve gives rtc_init
rtcArg(q) == 0

\* mutant: the system control interrupt controller comes before the clock
InitChipset_SCIFirst ==
    /\ pc = "init_mem"
    /\ calls' = calls \o << Call("init_mem", <<>>, 0),
                            Call("init_inout", <<>>, 0),
                            Call("pci_irq_init", <<>>, 0),
                            Call("ioapic_init", <<>>, 0),
                            Call("sci_init", <<>>, 0),
                            Call("rtc_init", rtcArg(p), 0) >>
    /\ pc' = "init_pci"
    /\ UNCHANGED <<orig, p, idx, memsize, maxVCPUs, ret, ndefaults, cbufs, thread, locked>>

\* init_mem, init_inout, pci_irq_init, ioapic_init, rtc_init, sci_init: six
\* calls in a row whose results RunXHyve does not read
InitChipset ==
    /\ pc = "init_mem"
    /\ calls' = calls \o << Call("init_mem", <<>>, 0),
                            Call("init_inout", <<>>, 0),
                            Call("pci_irq_init", <<>>, 0),
                            Call("ioapic_init", <<>>, 0),
                            Call("rtc_init", rtcArg(p), 0),
                            Call("sci_init", <<>>, 0) >>
    /\ pc' = "init_pci"
    /\ UNCHANGED <<orig, p, idx, memsize, maxVCPUs, ret, ndefaults, cbufs, thread, locked>>

\* mutant: a failed PCI bus initialization is tried again
InitPCI_Retry ==
    /\ pc = "init_pci"
    /\ \E rc \in ReturnCodes :
        /\ calls' = Append(calls, Call("init_pci", <<>>, rc))
        /\ pc' = IF rc # 0 THEN "init_pci" ELSE "init_bvmcons"
        /\ ret' = ret
    /\ Len(calls) < 40
    /\ UNCHANGED <<orig, p, idx, memsize, maxVCPUs, ndefaults, cbufs, thread, locked>>

InitPCI ==
    /\ pc = "init_pci"
    /\ \E rc \in ReturnCodes :
        Checked("init_pci", <<>>, rc, ErrInitializingPCI, "init_bvmcons")
    /\ UNCHANGED <<orig, p, idx, memsize, maxVCPUs, ndefaults, cbufs, thread, locked>>

\* if p.BVMConsole { C.init_bvmcons() }
InitBVMCons ==
    /\ pc = "init_bvmcons"
    /\ calls' = IF p.BVMConsole
                THEN Append(calls, Call("init_bvmcons", <<>>, 0))
                ELSE calls
    /\ pc' = "mptable_build"
    /\ UNCHANGED <<orig, p, idx, memsize, maxVCPUs, ret, ndefaults, cbufs, thread, locked>>

\* mutant: the MP table is built when the ACPI flag is set
MPTableBuild_OnACPI ==
    /\ pc = "mptable_build"
    /\ IF p.ACPI
       THEN \E rc \in ReturnCodes :
            Checked("mptable_build", CInt(p.Nvcpus), rc, ErrBuildingMPTTable,
                    "smbios_build")
       ELSE pc' = "smbios_build" /\ UNCHANGED <<calls, ret>>
    /\ UNCHANGED <<orig, p, idx, memsize, maxVCPUs, ndefaults, cbufs, thread, locked>>

\* if p.MPTGen { if err := C.mptable_build(C.int(p.Nvcpus)); ... }
MPTableBuild ==
    /\ pc = "mptable_build"
    /\ IF p.MPTGen
       THEN \E rc \in ReturnCodes :
            Checked("mptable_build", CInt(p.Nvcpus), rc, ErrBuildingMPTTable,
                    "smbios_build")
       ELSE pc' = "smbios_build" /\ UNCHANGED <<calls, ret>>
    /\ UNCHANGED <<orig, p, idx, memsize, maxVCPUs, ndefaults, cbufs, thread, locked>>

SMBIOSBuild ==
    /\ pc = "smbios_build"
    /\ \E rc \in ReturnCodes :
        Checked("smbios_build", <<>>, rc, ErrBuildingSMBIOS, "acpi_build")
    /\ UNCHANGED <<orig, p, idx, memsize, maxVCPUs, ndefaults, cbufs, thread, locked>>

\* if p.ACPI { if err := C.acpi_build(C.int(p.Nvcpus)); ... }
ACPIBuild ==
    /\ pc = "acpi_build"
    /\ IF p.ACPI
       THEN \E rc \in ReturnCodes :
            Checked("acpi_build", CInt(p.Nvcpus), rc, ErrBuildingACPI,
                    "vcpu_add")
       ELSE pc' = "vcpu_add" /\ UNCHANGED <<calls, ret>>
    /\ UNCHANGED <<orig, p, idx, memsize, maxVCPUs, ndefaults, cbufs, thread, locked>>

\* what the backend may signal from primary vCPU creation: success, or an
\* unrecoverable error
VcpuAddSignals == {0, -1}

\* C.vcpu_add(bsp, bsp, rip): whatever the backend signals is not read
VCPUAdd ==
    /\ pc = "vcpu_add"
    /\ \E rc \in VcpuAddSignals :
        calls' = Append(calls, Call("vcpu_add", <<0, 0, 0>>, rc))
    /\ pc' = "mevent_dispatch"
    /\ UNCHANGED <<orig, p, idx, memsize, maxVCPUs, ret, ndefaults, cbufs, thread, locked>>

\* C.mevent_dispatch(): the call is entered and blocks
MEventDispatch ==
    /\ pc = "mevent_dispatch"
    /\ calls' = Append(calls, Call("mevent_dispatch", <<>>, 0))
    /\ pc' = "dispatching"
    /\ UNCHANGED <<orig, p, idx, memsize, maxVCPUs, ret, ndefaults, cbufs, thread, locked>>

\* the dispatch loop comes back and RunXHyve returns nil
ReturnNil ==
    /\ pc = "dispatching"
    /\ Return("nil")
    /\ UNCHANGED <<orig, p, idx, calls, memsize, maxVCPUs, ndefaults, cbufs, thread, locked>>

Next ==
    \/ RunSetDefaults
    \/ PCIParseSlot
    \/ LPCDeviceParse
    \/ ParseMemsize
    \/ FirmwareParse
    \/ VMCreate
    \/ NumVCPUsAllowed
    \/ SetupMemory
    \/ InitMSR
    \/ InitChipset
    \/ InitPCI
    \/ InitBVMCons
    \/ MPTableBuild
    \/ SMBIOSBuild
    \/ ACPIBuild
    \/ VCPUAdd
    \/ MEventDispatch
    \/ ReturnNil

Spec == Init /\ [][Next]_vars

----------------------------------------------------------------------------
(* RunXHyve under the Go scheduler.  RunXHyve never calls                  *)
(* runtime.LockOSThread, so unless its caller did, the scheduler may move  *)
(* the goroutine to another OS thread between any two steps.               *)

\* one request that takes every stage of the pipeline
ThreadedParams ==
    [Nvcpus |-> [hi |-> 0, lo |-> 1], Memory |-> <<"1", "0", "2", "4">>,
     PCISlots |-> <<>>, LPCDevs |-> <<"com2,autopty">>, UUID |-> "vm-1",
     ACPI |-> TRUE, UTC |-> TRUE,
     BootParams |-> "kexec,vmlinuz,initrd.gz,earlyprintk=serial",
     BVMConsole |-> TRUE, MPTGen |-> TRUE]

InitThreads ==
    /\ orig = ThreadedParams
    /\ p = orig
    /\ pc = "setDefaults"
    /\ idx = 1
    /\ calls = <<>>
    /\ memsize = 0
    /\ maxVCPUs = 0
    /\ ret = "running"
    /\ ndefaults = 0
    /\ cbufs = 0
    /\ thread = 1
    /\ locked \in BOOLEAN

\* the scheduler resumes the goroutine on the next OS thread
Migrate ==
    /\ pc # "done"
    /\ ~locked
    /\ thread < MaxThreads
    /\ thread' = thread + 1
    /\ UNCHANGED <<orig, p, pc, idx, calls, memsize, maxVCPUs, ret, ndefaults,
                   cbufs, locked>>

NextThreads ==
    \/ Next
    \/ Migrate

SpecThreads == InitThreads /\ [][NextThreads]_vars

----------------------------------------------------------------------------
(* Reading the call log. *)

\* the stage of the bootstrap pipeline a backend call belongs to
StageOf(fn) ==
    CASE fn = "pci_parse_slot"      -> 1
      [] fn = "lpc_device_parse"    -> 2
      [] fn = "parse_memsize"       -> 3
      [] fn = "firmware_parse"      -> 4
      [] fn = "xh_vm_create"        -> 5
      [] fn = "num_vcpus_allowed"   -> 6
      [] fn = "xh_vm_setup_memory"  -> 7
      [] fn \in {"init_msr", "init_mem", "init_inout", "pci_irq_init",
                 "ioapic_init", "rtc_init", "sci_init"} -> 8
      [] fn = "init_pci"            -> 9
      [] fn = "init_bvmcons"        -> 10
      [] fn = "mptable_build"       -> 11
      [] fn = "smbios_build"        -> 12
      [] fn = "acpi_build"          -> 13
      [] fn = "vcpu_add"            -> 14
      [] fn = "mevent_dispatch"     -> 15

\* the calls whose answer is a status: 0, or a failure code
Reporting(c) == c.fn # "num_vcpus_allowed"

CallsOf(fn) == {k \in 1..Len(calls) : calls[k].fn = fn}

Called(fn) == CallsOf(fn) # {}

StagesCalled == {StageOf(calls[k].fn) : k \in 1..Len(calls)}

Errors ==
    {ErrPCISlots, ErrLPCDevice, ErrInvalidMemsize, ErrInvalidBootParams,
     ErrCreatingVM, ErrMaxNumVCPUExceeded, ErrSettingUpMemory,
     ErrInitializingMSR, ErrInitializingPCI, ErrBuildingMPTTable,
     ErrBuildingSMBIOS, ErrBuildingACPI}

Returned == pc = "done"

ReturnedError == Returned /\ ret \in Errors

\* the places of control, in program order
PcOrder ==
    << "setDefaults", "pci_parse_slot", "lpc_device_parse", "parse_memsize",
       "firmware_parse", "xh_vm_create", "num_vcpus_allowed",
       "xh_vm_setup_memory", "init_msr", "init_mem", "init_pci",
       "init_bvmcons", "mptable_build", "smbios_build", "acpi_build",
       "vcpu_add", "mevent_dispatch", "dispatching" >>

RankIndex ==
    [l \in {PcOrder[k] : k \in 1..Len(PcOrder)} |->
        CHOOSE k \in 1..Len(PcOrder) : PcOrder[k] = l]

Rank(l) == RankIndex[l]

\* how far the run has come: the place it is at or, once it returned an
\* error, the place of the call that made it return
Position ==
    IF pc # "done" THEN Rank(pc)
    ELSE IF ret = "nil" THEN Len(PcOrder) + 1
    ELSE Rank(calls[Len(calls)].fn)

\* control has gone past place l
Passed(l) == Position > Rank(l)

----------------------------------------------------------------------------
(* C1: fail-fast.  Whenever a backend call of any stage reports a failure, *)
(* RunXHyve has returned an error right then and that call is the last     *)
(* backend call of the run: no call of a later stage, mevent_dispatch in   *)
(* particular, follows it.                                                 *)
C1_FailFast ==
    \A k \in 1..Len(calls) :
        (Reporting(calls[k]) /\ calls[k].rc # 0)
            => (k = Len(calls) /\ ReturnedError)

\* the backend functions in the order RunXHyve calls them
CallOrder ==
    << "pci_parse_slot", "lpc_device_parse", "parse_memsize",
       "firmware_parse", "xh_vm_create", "num_vcpus_allowed",
       "xh_vm_setup_memory", "init_msr", "init_mem", "init_inout",
       "pci_irq_init", "ioapic_init", "rtc_init", "sci_init", "init_pci",
       "init_bvmcons", "mptable_build", "smbios_build", "acpi_build",
       "vcpu_add", "mevent_dispatch" >>

OrderIndex ==
    [fn \in {CallOrder[k] : k \in 1..Len(CallOrder)} |->
        CHOOSE k \in 1..Len(CallOrder) : CallOrder[k] = fn]

OrderOf(fn) == OrderIndex[fn]

(* C2: fixed order without retry.  Read as stage numbers the call log is   *)
(* non-decreasing (the stages run in the order PCI slots, LPC devices,     *)
(* memory size, boot specification, VM creation, vCPU limit, memory        *)
(* mapping, chipset, PCI bus, console, MP table, SMBIOS, ACPI, primary     *)
(* vCPU, dispatch), and every backend function other than the two          *)
(* per-descriptor ones is called at most once in a run: each call comes    *)
(* strictly later in the program order than the call before it, unless     *)
(* both register a descriptor of the same list.                            *)
C2_FixedOrderNoRetry ==
    \A k \in 1..(Len(calls) - 1) :
        /\ StageOf(calls[k].fn) <= StageOf(calls[k + 1].fn)
        /\ \/ OrderOf(calls[k].fn) < OrderOf(calls[k + 1].fn)
           \/ /\ calls[k].fn = calls[k + 1].fn
              /\ calls[k].fn \in {"pci_parse_slot", "lpc_device_parse"}

\* a run that went through all fifteen stages and came back from dispatch
C2_Witness ==
    /\ Returned /\ ret = "nil"
    /\ StagesCalled = 1..15

\* the error kind the classifier names for the stage of a backend function
KindOf(fn) ==
    CASE fn = "pci_parse_slot"      -> ErrPCISlots
      [] fn = "lpc_device_parse"    -> ErrLPCDevice
      [] fn = "parse_memsize"       -> ErrInvalidMemsize
      [] fn = "firmware_parse"      -> ErrInvalidBootParams
      [] fn = "xh_vm_create"        -> ErrCreatingVM
      [] fn = "num_vcpus_allowed"   -> ErrMaxNumVCPUExceeded
      [] fn = "xh_vm_setup_memory"  -> ErrSettingUpMemory
      [] fn = "init_msr"            -> ErrInitializingMSR
      [] fn = "init_pci"            -> ErrInitializingPCI
      [] fn = "mptable_build"       -> ErrBuildingMPTTable
      [] fn = "smbios_build"        -> ErrBuildingSMBIOS
      [] fn = "acpi_build"          -> ErrBuildingACPI

\* the backend functions of the twelve stages that have an error kind
Classified ==
    {"pci_parse_slot", "lpc_device_parse", "parse_memsize", "firmware_parse",
     "xh_vm_create", "num_vcpus_allowed", "xh_vm_setup_memory", "init_msr",
     "init_pci", "mptable_build", "smbios_build", "acpi_build"}

ReportedMax == calls[CHOOSE k \in CallsOf("num_vcpus_allowed") : TRUE].rc

(* C4: vCPU limit check.  Once the limit has been queried, the run has     *)
(* failed with the vCPU-limit-exceeded error if and only if the defaulted  *)
(* vcpuCount is strictly greater than the reported maximum; in that case   *)
(* VM creation was called and memory mapping is never called; otherwise    *)
(* (vcpuCount equal to the maximum included) the run goes on to memory     *)
(* mapping.                                                                *)
C4_VcpuLimitCheck ==
    Called("num_vcpus_allowed") =>
        /\ (ReturnedError /\ ret = ErrMaxNumVCPUExceeded)
                <=> Exceeds(p.Nvcpus, ReportedMax)
        /\ Exceeds(p.Nvcpus, ReportedMax) =>
                /\ Called("xh_vm_create")
                /\ ~Called("xh_vm_setup_memory")
        /\ ~Exceeds(p.Nvcpus, ReportedMax) =>
                (pc = "xh_vm_setup_memory" \/ Called("xh_vm_setup_memory"))

(* C5: optional stages follow their flags.  A console, MP-table or ACPI    *)
(* call is only ever made with its flag set; once control is past PCI bus  *)
(* initialization and past the place of an optional stage, its call was    *)
(* made iff the flag is set; once control is past the SMBIOS place the     *)
(* SMBIOS call was made whatever the flags; and a run that came back from  *)
(* dispatch with ACPI and MP tables off has called exactly the stages 1-9, *)
(* 12, 14, 15 (and 10 iff the console is on).                              *)
C5_OptionalStagesFollowFlags ==
    /\ Called("init_bvmcons") => p.BVMConsole
    /\ Called("mptable_build") => p.MPTGen
    /\ Called("acpi_build") => p.ACPI
    /\ Passed("init_bvmcons") => (Called("init_bvmcons") <=> p.BVMConsole)
    /\ Passed("mptable_build") => (Called("mptable_build") <=> p.MPTGen)
    /\ Passed("smbios_build") => Called("smbios_build")
    /\ Passed("acpi_build") => (Called("acpi_build") <=> p.ACPI)
    /\ (Returned /\ ret = "nil" /\ ~p.ACPI /\ ~p.MPTGen) =>
        StagesCalled = (1..9) \cup {12, 14, 15}
                          \cup (IF p.BVMConsole THEN {10} ELSE {})

\* dispatch handoff reached with ACPI and MP tables off
C5_Witness ==
    /\ Called("mevent_dispatch")
    /\ ~p.ACPI /\ ~p.MPTGen /\ ~p.BVMConsole
    /\ Called("smbios_build")

(* C6: primary vCPU creation failure is fatal.  If vcpu_add signalled an   *)
(* error, the dispatch loop is not entered and RunXHyve does not return    *)
(* success.                                                                *)
C6_VcpuAddFailureIsFatal ==
    \A k \in CallsOf("vcpu_add") :
        calls[k].rc # 0 => (~Called("mevent_dispatch") /\ ret # "nil")

(* C7: defaulting runs exactly once and first.  setDefaults has run        *)
(* before the first backend call, it never runs a second time, and from    *)
(* its completion on no step of the run changes any field of the           *)
(* parameters.                                                             *)
C7_DefaultingOnceAndFirst ==
    /\ [](calls # <<>> => ndefaults = 1)
    /\ [](ndefaults <= 1)
    /\ [][ndefaults >= 1 => (p' = p /\ ndefaults' = ndefaults)]_vars

\* a whole run on parameters that defaulting had to change
C7_Witness ==
    /\ Returned /\ ret = "nil"
    /\ ndefaults = 1
    /\ p # orig

ParsesTo256OrMore(s) == ~Atoi(s).err /\ Atoi(s).n >= 256

(* C9 as stated: a memory spec that does not parse or parses below 256 is  *)
(* replaced by "256"; the spec handed to parse_memsize always parses to at *)
(* least 256; and memory-size resolution never fails.                      *)
C9_MemoryDefaulting ==
    /\ ndefaults >= 1 =>
        /\ ~ParsesTo256OrMore(orig.Memory) => p.Memory = <<"2", "5", "6">>
        /\ ParsesTo256OrMore(p.Memory)
    /\ \A k \in CallsOf("parse_memsize") :
        /\ ParsesTo256OrMore(calls[k].arg)
        /\ calls[k].rc = 0
    /\ ret # ErrInvalidMemsize

(* C9 as amended: a memory spec that does not parse or parses below 256 is *)
(* replaced by "256", and the spec handed to parse_memsize always parses   *)
(* to at least 256; the backend may still reject it, and then RunXHyve     *)
(* returns the invalid-memory-size error.                                  *)
C9_MemoryDefaultingAmended ==
    /\ ndefaults >= 1 =>
        /\ ~ParsesTo256OrMore(orig.Memory) => p.Memory = <<"2", "5", "6">>
        /\ ParsesTo256OrMore(p.Memory)
    /\ \A k \in CallsOf("parse_memsize") :
        /\ ParsesTo256OrMore(calls[k].arg)
        /\ calls[k].rc # 0 => (ReturnedError /\ ret = ErrInvalidMemsize)

\* a too-small spec was replaced and handed to parse_memsize
C9_Witness ==
    /\ orig.Memory = <<"2", "5", "5">>
    /\ \E k \in CallsOf("parse_memsize") :
        calls[k].arg = <<"2", "5", "6">> /\ calls[k].rc = 0

(* C10: default PCI topology.  After setDefaults an empty PCISlots has     *)
(* become exactly "2:0,virtio-net", "0:0,hostbridge", "31,lpc", in this    *)
(* order, and a non-empty PCISlots is the caller's list, unchanged.        *)
C10_DefaultPCITopology ==
    ndefaults >= 1 =>
        /\ Len(orig.PCISlots) = 0 =>
            p.PCISlots = <<"2:0,virtio-net", "0:0,hostbridge", "31,lpc">>
        /\ Len(orig.PCISlots) # 0 => p.PCISlots = orig.PCISlots

\* the three default slots were registered with the backend
C10_Witness ==
    /\ orig.PCISlots = <<>>
    /\ Cardinality(CallsOf("pci_parse_slot")) = 3
    /\ calls[3].arg = "31,lpc"

\* an LPC descriptor names a device and, after a comma, what it is bound to
\* ("-l com1,stdio"): the serial console on the process's standard I/O
SerialConsoleOnStdio == "com1,stdio"

(* C11: default LPC devices.  After setDefaults an empty LPCDevs has       *)
(* become exactly "com1", "stdio" and a non-empty LPCDevs is the caller's  *)
(* list, unchanged; and once the LPC stage has gone through the defaulted  *)
(* list, what it registered with the backend is the serial console bound   *)
(* to standard I/O, the descriptor "com1,stdio".                           *)
C11_DefaultLPCDevs ==
    /\ ndefaults >= 1 =>
        /\ Len(orig.LPCDevs) = 0 => p.LPCDevs = <<"com1", "stdio">>
        /\ Len(orig.LPCDevs) # 0 => p.LPCDevs = orig.LPCDevs
    /\ (Len(orig.LPCDevs) = 0 /\ Passed("lpc_device_parse")) =>
        \E k \in CallsOf("lpc_device_parse") :
            calls[k].arg = SerialConsoleOnStdio

(* C14: RTC policy.  Whenever rtc_init is called, its argument is the one  *)
(* chosen by the UTC flag: it is not the argument the otherwise identical  *)
(* request with the opposite UTC flag gets.                                *)
C14_RTCPolicy ==
    \A k \in CallsOf("rtc_init") :
        /\ calls[k].arg = rtcArg(p)
        /\ calls[k].arg # rtcArg([p EXCEPT !.UTC = ~p.UTC])

\* the backend functions called at positions m .. m + n - 1 of the log
FnsFrom(m, n) == [k \in 1..n |-> calls[m + k - 1].fn]

\* the position of the init_msr call
MSRAt == CHOOSE k \in CallsOf("init_msr") : TRUE

\* what C15 says of init_msr, rtc_init and sci_init: init_msr comes right
\* after the successful memory mapping, its failure ends the run with the
\* MSR error before any other chipset call, and no run fails at rtc_init
\* or sci_init
ChipsetFailures ==
    /\ Called("init_msr") =>
        /\ calls[MSRAt - 1].fn = "xh_vm_setup_memory"
        /\ calls[MSRAt - 1].rc = 0
        /\ calls[MSRAt].rc # 0 =>
            /\ MSRAt = Len(calls)
            /\ ReturnedError /\ ret = ErrInitializingMSR
    /\ ReturnedError => calls[Len(calls)].fn \notin {"rtc_init", "sci_init"}

(* C15 as stated: after a successful memory mapping the calls of the       *)
(* chipset stage are exactly init_msr, init_inout, pci_irq_init,           *)
(* ioapic_init, rtc_init, sci_init, one right after the other; an MSR      *)
(* failure ends the run with the MSR error before the other five; no run   *)
(* fails at rtc_init or sci_init.                                          *)
C15_ChipsetStage ==
    /\ ChipsetFailures
    /\ Passed("init_mem") =>
        FnsFrom(MSRAt, 6) = << "init_msr", "init_inout", "pci_irq_init",
                               "ioapic_init", "rtc_init", "sci_init" >>

(* C15 as amended: the calls of the chipset stage are exactly init_msr,    *)
(* init_mem, init_inout, pci_irq_init, ioapic_init, rtc_init, sci_init,    *)
(* one right after the other (memory-mapped I/O dispatch is initialized    *)
(* between MSR emulation and port I/O dispatch); the rest as stated.       *)
C15_ChipsetStageAmended ==
    /\ ChipsetFailures
    /\ Passed("init_mem") =>
        FnsFrom(MSRAt, 7) = << "init_msr", "init_mem", "init_inout",
                               "pci_irq_init", "ioapic_init", "rtc_init",
                               "sci_init" >>
    /\ Called("init_mem") => Passed("init_mem")

\* the chipset stage ran and the run then failed at PCI bus initialization
C15_Witness ==
    /\ Called("sci_init")
    /\ ReturnedError /\ ret = ErrInitializingPCI

(* C16: memory mapping arguments.  Every xh_vm_setup_memory call follows a *)
(* successful parse_memsize and is given the byte count parse_memsize      *)
(* stored in memsize together with VM_MMAP_ALL; when it fails the run      *)
(* returns the memory-setup error and it is the last backend call.         *)
C16_MemoryMappingArguments ==
    \A k \in CallsOf("xh_vm_setup_memory") :
        /\ \E j \in CallsOf("parse_memsize") : j < k /\ calls[j].rc = 0
        /\ memsize \in MemsizeOutputs
        /\ calls[k].arg = <<memsize, "VM_MMAP_ALL">>
        /\ calls[k].rc # 0 =>
            /\ k = Len(calls)
            /\ ReturnedError /\ ret = ErrSettingUpMemory

\* a mapping that failed
C16_Witness ==
    /\ ReturnedError /\ ret = ErrSettingUpMemory
    /\ calls[Len(calls)].arg[1] = 268435456

\* the positions of the calls of fn, in order
RECURSIVE PositionsOf(_, _)
PositionsOf(fn, n) ==
    IF n = 0 THEN <<>>
    ELSE IF calls[n].fn = fn THEN Append(PositionsOf(fn, n - 1), n)
    ELSE PositionsOf(fn, n - 1)

\* the calls of fn register the descriptors of list, one at a time and in
\* list order, and stop at the first one rejected, which ends the run with e
RegisteredInOrder(fn, list, e) ==
    LET at == PositionsOf(fn, Len(calls))
    IN  /\ Len(at) <= Len(list)
        /\ \A j \in 1..Len(at) :
            /\ calls[at[j]].arg = list[j]
            /\ j > 1 => at[j] = at[j - 1] + 1
            /\ calls[at[j]].rc # 0 =>
                /\ at[j] = Len(calls)
                /\ ReturnedError /\ ret = e

(* C19: per-descriptor registration.  The pci_parse_slot calls register    *)
(* the descriptors of PCISlots one at a time in list order, and the        *)
(* lpc_device_parse calls those of LPCDevs; the first rejected descriptor  *)
(* ends the run with the PCI-slot (resp. LPC-device) error, so no later    *)
(* descriptor is registered; and an LPC descriptor is registered only      *)
(* after every PCI slot descriptor was accepted.                           *)
C19_PerDescriptorRegistration ==
    /\ RegisteredInOrder("pci_parse_slot", p.PCISlots, ErrPCISlots)
    /\ RegisteredInOrder("lpc_device_parse", p.LPCDevs, ErrLPCDevice)
    /\ Called("lpc_device_parse") =>
        /\ Cardinality(CallsOf("pci_parse_slot")) = Len(p.PCISlots)
        /\ \A k \in CallsOf("pci_parse_slot") : calls[k].rc = 0

\* the second of three slots was rejected
C19_Witness ==
    /\ Len(p.PCISlots) = 3
    /\ Len(calls) = 2
    /\ calls[2].fn = "pci_parse_slot" /\ calls[2].rc # 0
    /\ ReturnedError

(* C20: defaulting frame.  After setDefaults a count >= 1, a memory spec   *)
(* that parses to >= 256, a non-empty PCISlots, a non-empty LPCDevs and a  *)
(* non-empty UUID are the caller's, unchanged; the ACPI flag, the UTC      *)
(* flag and the boot spec are the caller's whatever they are; and          *)
(* setDefaults applied to the defaulted parameters changes nothing.        *)
C20_DefaultingFrame ==
    ndefaults >= 1 =>
        /\ ~LessThanOne(orig.Nvcpus) => p.Nvcpus = orig.Nvcpus
        /\ ParsesTo256OrMore(orig.Memory) => p.Memory = orig.Memory
        /\ Len(orig.PCISlots) # 0 => p.PCISlots = orig.PCISlots
        /\ Len(orig.LPCDevs) # 0 => p.LPCDevs = orig.LPCDevs
        /\ orig.UUID # "" => p.UUID = orig.UUID
        /\ p.ACPI = orig.ACPI
        /\ p.UTC = orig.UTC
        /\ p.BootParams = orig.BootParams
        /\ \A fresh \in GeneratedUUIDs : setDefaults(p, fresh) = p

\* parameters that needed no default came through setDefaults as they were
C20_Witness ==
    /\ ndefaults = 1
    /\ p = orig
    /\ orig.UUID = "vm-1" /\ orig.Memory = <<"1", "0", "2", "4">>

\* the device an LPC descriptor names is one the backend supports
LPCDeviceKnown(d) == d \in {"com1", "com1,stdio", "com2,autopty"}

\* the backend answered as the stage list says it does: it accepts
\* well-formed PCI slot descriptors, accepts an LPC descriptor iff it names
\* a supported device, accepts a memory size that is a number, and rejects
\* a kernel boot spec whose image path is missing
BackendFollowsSpec ==
    \A k \in 1..Len(calls) :
        /\ calls[k].fn = "pci_parse_slot" => calls[k].rc = 0
        /\ calls[k].fn = "lpc_device_parse" =>
            (calls[k].rc = 0 <=> LPCDeviceKnown(calls[k].arg))
        /\ calls[k].fn = "parse_memsize" => calls[k].rc = 0
        /\ calls[k].fn = "firmware_parse" =>
            (calls[k].rc = 0 <=> calls[k].arg # "kexec,,,")

\* vcpuCount 0, empty memory spec, no PCI slots, no LPC devices, a kernel
\* boot spec with empty image, initrd and command line
AllEmptyRequest ==
    /\ orig.Nvcpus = [hi |-> 0, lo |-> 0]
    /\ orig.Memory = <<>>
    /\ orig.PCISlots = <<>>
    /\ orig.LPCDevs = <<>>
    /\ orig.BootParams = "kexec,,,"

(* C13: the all-empty request.  Defaulting yields vcpuCount 1, memory      *)
(* "256" and the default PCI and LPC lists; with a backend that answers    *)
(* as the stage list says, the PCI, LPC and memory-size stages succeed on  *)
(* those defaults and the run ends at the boot-specification stage with    *)
(* the invalid-boot-parameters error, without any VM-creation call.        *)
C13_AllEmptyRequest ==
    (AllEmptyRequest /\ ndefaults >= 1) =>
        /\ p.Nvcpus = [hi |-> 0, lo |-> 1]
        /\ p.Memory = <<"2", "5", "6">>
        /\ p.PCISlots = <<"2:0,virtio-net", "0:0,hostbridge", "31,lpc">>
        /\ p.LPCDevs = <<"com1", "stdio">>
        /\ ~Called("xh_vm_create")
        /\ (Returned /\ BackendFollowsSpec) =>
            /\ ret = ErrInvalidBootParams
            /\ \A k \in 1..(Len(calls) - 1) : calls[k].rc = 0
            /\ calls[Len(calls)].fn = "firmware_parse"

(* C17: buffer release.  Whenever RunXHyve has ended, by any of its error  *)
(* returns or by the return after dispatch, no C buffer that it allocated  *)
(* for a PCI slot, an LPC descriptor, the memory spec or the boot spec is  *)
(* left unreleased.                                                        *)
C17_BuffersReleased == Returned => cbufs = 0

(* C18: thread affinity.  From the first backend call until RunXHyve      *)
(* returns, every backend call is made on the OS thread the first one was  *)
(* made on: the scheduler has moved the goroutine between no two of them.  *)
C18_ThreadAffinity ==
    \A k \in 1..Len(calls) : calls[k].thread = calls[1].thread

====
